---- MODULE Spec2Model ----
(***************************************************************************)
(* ToolAndModelRetryStrategy                                               *)
(* (src/src/strands/event_loop/_tool_and_model_retry.py): the combined     *)
(* retry strategy for model calls and tool calls, as a state machine.      *)
(*                                                                         *)
(* The strategy is an object with three hook callbacks.  The callbacks are *)
(* coroutines on one asyncio event loop: a callback runs without           *)
(* interruption up to its only suspension point, `await asyncio.sleep`,    *)
(* and again from there to its return.  So each callback is modelled by an *)
(* action for the part before the sleep (which also covers every path that *)
(* returns without sleeping), an action for the part after the sleep, and  *)
(* an action for the task being cancelled while it sleeps.  A sleeping     *)
(* task holds the event it was called with; only an event that arrived     *)
(* with retry = False reaches the sleep, so the flag is False during the   *)
(* sleep and is set when the task resumes.                                 *)
(*                                                                         *)
(* Delays are Python floats (seconds).  They are modelled in fixed point,  *)
(* as an integer number of ticks, TicksPerSecond ticks to a second, so     *)
(* that int(delay) is a real truncation.                                   *)
(***************************************************************************)
EXTENDS Integers, Sequences, FiniteSets, TLC

\* ------------------------------------------------------------------ bounds

\* The environment publishes no further failure event for an identifier
\* whose recorded attempt count has reached MaxCount.
MaxCount == 3

\* The calling loop's tool fails its first k executions, k <= MaxFails, or
\* every execution; its model is throttled on its first j calls,
\* j <= MaxThrottles, or on every call.
MaxFails == 3
MaxThrottles == 3

\* ------------------------------------------------------------- value model

TicksPerSecond == 2

Sec(n) == n * TicksPerSecond

Min(a, b) == IF a <= b THEN a ELSE b

\* int(delay) of a non-negative float: truncation to whole seconds.
IntOf(delay) == delay \div TicksPerSecond

\* An exception object: its class and its message.  NoException is None.
NoException == [type |-> "None", msg |-> ""]

Exc(t, m) == [type |-> t, msg |-> m]

\* The optional list arguments: None, or a list of names (kept as a set,
\* since the constructor itself turns the list into a set).
NoList == [given |-> FALSE, names |-> {}]

ListOf(S) == [given |-> TRUE, names |-> S]

\* tool_configs = None
NoToolConfigs == [n \in {} |-> [f \in {} |-> 0]]

\* The invocation identifiers of the run, and the tool each one calls: an
\* identifier belongs to one logical tool call, so its tool_use descriptor
\* (and the tool name in it) is the same on each of its attempts.
ToolUseIds == {"id-1", "id-2"}

ToolNameOf(id) == IF id = "id-1" THEN "tool_a" ELSE "tool_b"

ToolUse(id) == [toolUseId |-> id, name |-> ToolNameOf(id)]

ModelTasks == {"m1", "m2"}

\* --------------------------------------------------- constructor arguments

DefaultArgs ==
    [ model_max_attempts  |-> 6,
      model_initial_delay |-> Sec(4),
      model_max_delay     |-> Sec(240),
      tool_max_attempts   |-> 0,
      tool_initial_delay  |-> Sec(1),
      tool_max_delay      |-> Sec(30),
      tool_should_retry   |-> "None",
      tool_configs        |-> NoToolConfigs,
      tool_enabled_tools  |-> NoList,
      tool_disabled_tools |-> NoList ]

\* Model settings used with the tool configurations below: a short budget,
\* a first delay that is not a whole number of seconds and a cap that the
\* second delay exceeds (1.5 s, then 2 s instead of 3 s).
SmallModel ==
    [DefaultArgs EXCEPT !.model_max_attempts = 2,
                        !.model_initial_delay = 3,
                        !.model_max_delay = Sec(2)]

\* The constructor calls of the model.
ArgChoices ==
    { DefaultArgs,
      [SmallModel EXCEPT !.tool_max_attempts = 2],
      [SmallModel EXCEPT !.tool_max_attempts = 3,
                         !.tool_initial_delay = 3,
                         !.tool_max_delay = Sec(4),
                         !.tool_should_retry = "only_timeout_errors"],
      [SmallModel EXCEPT !.tool_max_attempts = 1,
                         !.tool_should_retry = "transient_message"],
      [SmallModel EXCEPT !.tool_configs =
            [n \in {"tool_a"} |-> [max_attempts |-> 3, initial_delay |-> Sec(2)]]],
      [SmallModel EXCEPT !.tool_configs =
            [n \in {"tool_a", "tool_b"} |-> [max_attempts |-> 2]],
                         !.tool_disabled_tools = ListOf({"tool_b"})],
      [SmallModel EXCEPT !.tool_max_attempts = 2,
                         !.tool_configs =
            [n \in {"tool_b"} |-> [max_attempts |-> 0, max_delay |-> Sec(1)]]],
      [SmallModel EXCEPT !.tool_max_attempts = 2,
                         !.tool_configs =
            [n \in {"tool_a"} |-> [max_attempts |-> 5, initial_delay |-> Sec(2)]]],
      [SmallModel EXCEPT !.tool_max_attempts = 2,
                         !.tool_enabled_tools = ListOf({"tool_a"})],
      [SmallModel EXCEPT !.tool_max_attempts = 2,
                         !.tool_configs =
            [n \in {"tool_b"} |-> [max_attempts |-> 4, initial_delay |-> 3,
                                   max_delay |-> Sec(2)]],
                         !.tool_disabled_tools = ListOf({"tool_a"})],
      [SmallModel EXCEPT !.tool_max_attempts = 2,
                         !.tool_enabled_tools = ListOf({})],
      [SmallModel EXCEPT !.tool_max_attempts = 2,
                         !.tool_disabled_tools = ListOf({})],
      [SmallModel EXCEPT !.tool_max_attempts = 2,
                         !.tool_enabled_tools = ListOf({"tool_a"}),
                         !.tool_disabled_tools = ListOf({"tool_b"})],
      [SmallModel EXCEPT !.tool_max_attempts = 2,
                         !.tool_enabled_tools = ListOf({}),
                         !.tool_disabled_tools = ListOf({})] }

\* ------------------------------------------------------------------ events

TextItem(t) == [kind |-> "text", text |-> t]

\* A content item that is a dict without a "text" key.
JsonItem == [kind |-> "json", text |-> ""]

Result(s, c) == [status |-> s, content |-> c]

Outcome(r, e) == [result |-> r, exception |-> e]

\* What a tool execution can end in: a result and, if the tool raised, the
\* exception.  (A raised exception can come with any result status.)
ToolOutcomes ==
    { Outcome(Result("success", <<TextItem("ok")>>), NoException),
      Outcome(Result("error", <<TextItem("transient")>>), NoException),
      Outcome(Result("error", <<JsonItem, TextItem("fatal")>>), NoException),
      Outcome(Result("error", <<JsonItem>>), NoException),
      Outcome(Result("error", <<TextItem(""), TextItem("transient")>>), NoException),
      Outcome(Result("error", <<TextItem("transient")>>), Exc("TimeoutError", "timed out")),
      Outcome(Result("success", <<TextItem("ok")>>), Exc("ValueError", "transient")) }

\* The AfterToolCallEvent objects the hook bus may publish for an identifier.
\* retry is TRUE when an earlier callback of the bus has claimed the retry.
ToolEvents(id) ==
    { [tool_use |-> ToolUse(id), result |-> o.result, exception |-> o.exception,
       retry |-> b] : o \in ToolOutcomes, b \in BOOLEAN }

ModelOutcomes ==
    { [exception |-> Exc("ModelThrottledException", "throttled"), stop_response |-> "None"],
      [exception |-> Exc("ValueError", "bad request"), stop_response |-> "None"],
      [exception |-> NoException, stop_response |-> "end_turn"],
      [exception |-> Exc("ModelThrottledException", "throttled"), stop_response |-> "end_turn"],
      [exception |-> NoException, stop_response |-> "None"] }

\* The AfterModelCallEvent objects the hook bus may publish.
ModelEvents ==
    { [exception |-> o.exception, stop_response |-> o.stop_response, retry |-> b] :
        o \in ModelOutcomes, b \in BOOLEAN }

\* ------------------------------------------------------------------- state

VARIABLES
    args,                \* the constructor call's arguments
    phase,               \* "new", "ready" (constructed) or "error" (ValueError)
    cfg,                 \* the configuration fields of self
    model_current_attempt,
    backwards_compatible_event_to_yield,
    tool_attempts,       \* dict: invocation identifier -> attempt count
    tool_task,           \* per identifier, the running _handle_after_tool_call
    model_task,          \* per model task, the running _handle_after_model_call
    last,                \* the most recent step, and the event it was about
    failures,            \* per identifier: failure events counted since the
                         \*   identifier last had no record (history)
    exhausted,           \* per identifier: its count has reached max_attempts
                         \*   since the last reset (history)
    spent,               \* per identifier: its count has reached max_attempts
                         \*   since the last reset or handled success (history)
    caller,              \* the scripted caller (SpecCaller), or the record
                         \*   of the hook bus's last dispatch (SpecBus)
    registry             \* the hook registry: event class -> callbacks

vars == <<args, phase, cfg, model_current_attempt,
          backwards_compatible_event_to_yield, tool_attempts, tool_task,
          model_task, last, failures, exhausted, spent, caller, registry>>

strategy == <<model_current_attempt, backwards_compatible_event_to_yield,
              tool_attempts>>

\* self before __init__ has run (and after it has raised): no fields.
NoCfg == [constructed |-> FALSE]

NoThrottleEvent == [kind |-> "None", delay |-> 0]

EventLoopThrottleEvent(d) == [kind |-> "EventLoopThrottleEvent", delay |-> d]

EmptyDict == [i \in {} |-> 0]

Idle == [pc |-> "idle"]

NoCaller == [mode |-> "none"]

Get(d, k, default) == IF k \in DOMAIN d THEN d[k] ELSE default

EventClasses == {"AfterModelCallEvent", "AfterToolCallEvent", "AfterInvocationEvent"}

\* A registry nothing has been registered with.
EmptyRegistry == [c \in EventClasses |-> << >>]

\* ------------------------------------------------------------- construction

\* Mutant: the conflict check by truthiness, `if x and y`.
BothListsNonEmpty(a) ==
    /\ a.tool_enabled_tools.given /\ a.tool_enabled_tools.names # {}
    /\ a.tool_disabled_tools.given /\ a.tool_disabled_tools.names # {}

\* `x is not None and y is not None`: the constructor's conflict check.
BothListsGiven(a) == a.tool_enabled_tools.given /\ a.tool_disabled_tools.given

\* `set(x) if x else None`: an empty list is falsy, and is stored as None.
ListToSet(l) == IF l.given /\ l.names # {} THEN ListOf(l.names) ELSE NoList

ConfigOf(a) ==
    [ constructed         |-> TRUE,
      model_max_attempts  |-> a.model_max_attempts,
      model_initial_delay |-> a.model_initial_delay,
      model_max_delay     |-> a.model_max_delay,
      tool_max_attempts   |-> a.tool_max_attempts,
      tool_initial_delay  |-> a.tool_initial_delay,
      tool_max_delay      |-> a.tool_max_delay,
      tool_should_retry   |-> a.tool_should_retry,
      tool_configs        |-> a.tool_configs,
      tool_enabled_tools  |-> ListToSet(a.tool_enabled_tools),
      tool_disabled_tools |-> ListToSet(a.tool_disabled_tools) ]

NoStep == [op |-> "none", stage |-> "returned", retry |-> FALSE, slept |-> FALSE, delay |-> 0]

\* __init__: raises ValueError, or sets every field of self.
Construct ==
    /\ phase = "new"
    /\ IF BothListsGiven(args)
         THEN /\ phase' = "error"
              /\ UNCHANGED <<cfg, strategy>>
         ELSE /\ phase' = "ready"
              /\ cfg' = ConfigOf(args)
              /\ model_current_attempt' = 0
              /\ tool_attempts' = EmptyDict
              /\ backwards_compatible_event_to_yield' = NoThrottleEvent
    /\ last' = [NoStep EXCEPT !.op = "construct"]
    /\ UNCHANGED <<args, registry, tool_task, model_task, failures, exhausted, spent, caller>>

\* ------------------------------------------------------------- model retry

\* sys.float_info.max_exp: the delays are floats (4.0, 1.0, ...), so
\* `initial_delay * (2**attempt)` converts the integer 2**attempt to a float,
\* and the conversion raises OverflowError from 2**1024 on.
FloatMaxExp == 1024

IntToFloatOverflows(attempt) == attempt >= FloatMaxExp

\* initial_delay * (2**attempt) where that is at most `cap`, and some value
\* above `cap` where it is more (a float product past the largest float is
\* inf): the doubling stops once the cap is passed, min() gives the same.
RECURSIVE Backoff(_, _, _)
Backoff(delay, attempt, cap) ==
    IF attempt = 0 \/ delay = 0 \/ delay > cap THEN delay
    ELSE Backoff(2 * delay, attempt - 1, cap)

\* Mutant: the backoff indexed by the attempt number after the increment.
CalculateModelDelayNextAttempt(attempt) ==
    Min(cfg.model_initial_delay * (2 ^ (attempt + 1)), cfg.model_max_delay)

CalculateModelDelay(attempt) ==
    Min(Backoff(cfg.model_initial_delay, attempt, cfg.model_max_delay),
        cfg.model_max_delay)

\* Mutant: every exception is retried.
IsAnyException(ev) == ev.exception # NoException

IsModelThrottled(ev) == ev.exception.type = "ModelThrottledException"

\* Mutant: `if self._model_current_attempt > self._model_max_attempts`
ModelAttemptsExceeded(current, max_attempts) == current > max_attempts

ModelAttemptsReached(current, max_attempts) == current >= max_attempts

\* Mutant: the first-claim check left out.
NeverAlreadyRetrying(ev) == FALSE

\* `if event.retry: return`
AlreadyRetrying(ev) == ev.retry

\* Mutant: granting a retry also drops the event's exception.
SetRetryAndClearException(ev) ==
    [ev EXCEPT !.retry = TRUE, !.exception = NoException]

\* `event.retry = True`: the only write of a handler to its event.
SetRetry(ev) == [ev EXCEPT !.retry = TRUE]

\* _handle_after_model_call up to its sleep: what it writes, and whether it
\* goes on to sleep, or leaves with the OverflowError of the delay.
ModelStep(ev) ==
    LET keep  == [attempt |-> model_current_attempt,
                  yield |-> backwards_compatible_event_to_yield,
                  sleep |-> FALSE, delay |-> 0, raised |-> FALSE]
        clear == [attempt |-> 0, yield |-> NoThrottleEvent,
                  sleep |-> FALSE, delay |-> 0, raised |-> FALSE]
    IN  IF AlreadyRetrying(ev) THEN keep
        ELSE IF ev.stop_response # "None" THEN clear
        ELSE IF ~IsModelThrottled(ev) THEN clear
        ELSE IF ModelAttemptsReached(model_current_attempt, cfg.model_max_attempts)
          THEN keep
        ELSE IF IntToFloatOverflows(model_current_attempt)
          THEN [keep EXCEPT !.raised = TRUE]
        ELSE [keep EXCEPT !.sleep = TRUE,
                          !.delay = CalculateModelDelay(model_current_attempt)]

HandleAfterModelCall(t, ev) ==
    /\ phase = "ready"
    /\ model_task[t] = Idle
    /\ LET out == ModelStep(ev) IN
        /\ model_current_attempt' = out.attempt
        /\ backwards_compatible_event_to_yield' = out.yield
        /\ model_task' = [model_task EXCEPT ![t] =
              IF out.sleep THEN [pc |-> "sleep", delay |-> out.delay, ev |-> ev]
                           ELSE Idle]
        /\ last' = [op |-> "model", key |-> t,
                    stage |-> IF out.raised THEN "raised"
                              ELSE IF out.sleep THEN "suspended" ELSE "returned",
                    ev |-> ev, event |-> ev, retry |-> ev.retry, slept |-> FALSE,
                    delay |-> out.delay, entry |-> model_current_attempt]
    /\ UNCHANGED <<args, registry, phase, cfg, tool_attempts, tool_task, failures, exhausted, spent>>

\* Mutant: the handler tidies up with `self._tool_attempts.clear()` once its
\* retry is granted.
ModelResumeClearingToolAttempts(t) ==
    /\ model_task[t].pc = "sleep"
    /\ backwards_compatible_event_to_yield' =
          EventLoopThrottleEvent(IntOf(model_task[t].delay))
    /\ model_current_attempt' = model_current_attempt + 1
    /\ tool_attempts' = EmptyDict
    /\ model_task' = [model_task EXCEPT ![t] = Idle]
    /\ last' = [op |-> "model", key |-> t, stage |-> "returned",
                ev |-> model_task[t].ev, event |-> SetRetry(model_task[t].ev),
                retry |-> TRUE, slept |-> TRUE, delay |-> model_task[t].delay]
    /\ UNCHANGED <<args, registry, phase, cfg, tool_task, failures, exhausted, spent>>

\* The rest of _handle_after_model_call, after the sleep.
ModelResume(t) ==
    /\ model_task[t].pc = "sleep"
    /\ backwards_compatible_event_to_yield' =
          EventLoopThrottleEvent(IntOf(model_task[t].delay))
    /\ model_current_attempt' = model_current_attempt + 1
    /\ model_task' = [model_task EXCEPT ![t] = Idle]
    /\ last' = [op |-> "model", key |-> t, stage |-> "returned",
                ev |-> model_task[t].ev, event |-> SetRetry(model_task[t].ev),
                retry |-> TRUE, slept |-> TRUE, delay |-> model_task[t].delay]
    /\ UNCHANGED <<args, registry, phase, cfg, tool_attempts, tool_task, failures, exhausted, spent>>

\* The task is cancelled in its sleep: CancelledError leaves the coroutine.
ModelCancel(t) ==
    /\ model_task[t].pc = "sleep"
    /\ model_task' = [model_task EXCEPT ![t] = Idle]
    /\ last' = [op |-> "model", key |-> t, stage |-> "cancelled",
                ev |-> model_task[t].ev, event |-> model_task[t].ev,
                retry |-> FALSE, slept |-> TRUE, delay |-> model_task[t].delay]
    /\ UNCHANGED <<args, registry, phase, cfg, strategy, tool_task, failures, exhausted, spent>>

\* -------------------------------------------------------------- tool retry

\* Mutant: the per-tool overrides are not consulted.
GetGlobalToolConfig(tool_name) ==
    [ max_attempts  |-> cfg.tool_max_attempts,
      initial_delay |-> cfg.tool_initial_delay,
      max_delay     |-> cfg.tool_max_delay ]

GetToolConfig(tool_name) ==
    LET tool_config == Get(cfg.tool_configs, tool_name, EmptyDict)
    IN  [ max_attempts  |-> Get(tool_config, "max_attempts", cfg.tool_max_attempts),
          initial_delay |-> Get(tool_config, "initial_delay", cfg.tool_initial_delay),
          max_delay     |-> Get(tool_config, "max_delay", cfg.tool_max_delay) ]

\* Mutant: retries are enabled for every tool.
IsToolRetryEnabledAlways(tool_name) == TRUE

\* Mutant: only the global tool_max_attempts enables retries.
IsToolRetryEnabledGloballyOnly(tool_name) ==
    IF cfg.tool_max_attempts <= 0 THEN FALSE
    ELSE IF cfg.tool_enabled_tools.given
      THEN tool_name \in cfg.tool_enabled_tools.names
    ELSE IF cfg.tool_disabled_tools.given
      THEN tool_name \notin cfg.tool_disabled_tools.names
    ELSE TRUE

\* Mutant: the deny-list is not consulted.
IsToolRetryEnabledWithoutDenyList(tool_name) ==
    LET tool_config == Get(cfg.tool_configs, tool_name, EmptyDict)
    IN  IF cfg.tool_max_attempts <= 0 /\ Get(tool_config, "max_attempts", 0) <= 0
          THEN FALSE
        ELSE IF cfg.tool_enabled_tools.given
          THEN tool_name \in cfg.tool_enabled_tools.names
        ELSE TRUE

IsToolRetryEnabled(tool_name) ==
    LET tool_config == Get(cfg.tool_configs, tool_name, EmptyDict)
    IN  IF cfg.tool_max_attempts <= 0 /\ Get(tool_config, "max_attempts", 0) <= 0
          THEN FALSE
        ELSE IF cfg.tool_enabled_tools.given
          THEN tool_name \in cfg.tool_enabled_tools.names
        ELSE IF cfg.tool_disabled_tools.given
          THEN tool_name \notin cfg.tool_disabled_tools.names
        ELSE TRUE

\* Mutant: the backoff without its cap.
CalculateToolDelayUncapped(attempt, initial_delay, max_delay) ==
    initial_delay * (2 ^ attempt)

CalculateToolDelay(attempt, initial_delay, max_delay) ==
    Min(Backoff(initial_delay, attempt, max_delay), max_delay)

\* Mutant: only the result status is looked at.
IsToolErrorStatusOnly(ev) == ev.result.status = "error"

IsToolErrorResult(ev) ==
    ev.exception # NoException \/ ev.result.status = "error"

\* Mutant: the text of the last content item with a "text" key.
LastText(content) ==
    LET withText == {i \in 1..Len(content) : content[i].kind = "text"}
    IN  IF withText = {} THEN ""
        ELSE content[CHOOSE i \in withText : \A j \in withText : i >= j].text

\* The text of the first content item with a "text" key ("" when none has).
FirstText(content) ==
    LET withText == {i \in 1..Len(content) : content[i].kind = "text"}
    IN  IF withText = {} THEN ""
        ELSE content[CHOOSE i \in withText : \A j \in withText : i <= j].text

GetToolErrorForPredicate(ev) ==
    IF ev.exception # NoException THEN ev.exception
    ELSE IF ev.result.status = "error"
      THEN LET error_text == FirstText(ev.result.content)
           IN  Exc("RuntimeError",
                   IF error_text # "" THEN error_text ELSE "Tool returned error status")
    ELSE NoException

\* The caller-supplied predicates of the model: isinstance(e, TimeoutError),
\* and str(e) == "transient".
ShouldRetry(predicate, error) ==
    IF predicate = "only_timeout_errors" THEN error.type = "TimeoutError"
    ELSE error.msg = "transient"

\* Mutant: the predicate's answer is ignored.
PredicateIgnored(error) == FALSE

\* `self._tool_should_retry is not None and error is not None
\*    and not self._tool_should_retry(error)`
PredicateRejects(error) ==
    /\ cfg.tool_should_retry # "None"
    /\ error # NoException
    /\ ~ShouldRetry(cfg.tool_should_retry, error)

\* The call of the predicate that line 318 makes for the event, if it makes
\* one: `and` evaluates the predicate only when it is configured and the
\* error is not None, on the path that has passed the earlier returns.
PredicateCall(ev) ==
    IF /\ ~AlreadyRetrying(ev)
       /\ IsToolRetryEnabled(ev.tool_use.name)
       /\ IsToolErrorResult(ev)
       /\ cfg.tool_should_retry # "None"
       /\ GetToolErrorForPredicate(ev) # NoException
      THEN [called |-> TRUE, error |-> GetToolErrorForPredicate(ev)]
      ELSE [called |-> FALSE, error |-> NoException]

\* Mutant: the success path clears the whole dict.
DeleteAllAttempts(attempts, tool_use_id) == EmptyDict

\* Mutant: the success path forgets the del.
DeleteNothing(attempts, tool_use_id) == attempts

\* `del self._tool_attempts[tool_use_id]` when the key is present.
DeleteAttempt(attempts, tool_use_id) ==
    [i \in DOMAIN attempts \ {tool_use_id} |-> attempts[i]]

\* Mutant: the incremented count is not written back.
SetNoAttempt(attempts, tool_use_id, n) == attempts

\* `self._tool_attempts[tool_use_id] = current_attempt`
SetAttempt(attempts, tool_use_id, n) ==
    [i \in DOMAIN attempts \cup {tool_use_id} |->
        IF i = tool_use_id THEN n ELSE attempts[i]]

\* Mutant: the increment counts double.
DoubleAttempt(current_attempt) == current_attempt + 2

\* `current_attempt += 1`
NextAttempt(current_attempt) == current_attempt + 1

\* Mutant: `if current_attempt > max_attempts`
MaxAttemptsExceeded(current_attempt, max_attempts) == current_attempt > max_attempts

\* Mutant: `if current_attempt == max_attempts`
MaxAttemptsEqual(current_attempt, max_attempts) == current_attempt = max_attempts

\* `if current_attempt >= max_attempts`
MaxAttemptsReached(current_attempt, max_attempts) == current_attempt >= max_attempts

\* _handle_after_tool_call up to its sleep: the attempt map it leaves, and
\* whether it goes on to sleep (and then sets retry), or leaves with the
\* OverflowError of the delay, the count already written.
ToolStep(ev) ==
    LET tool_use_id     == ev.tool_use.toolUseId
        tool_name       == ev.tool_use.name
        config          == GetToolConfig(tool_name)
        current_attempt == Get(tool_attempts, tool_use_id, 0)
        error           == GetToolErrorForPredicate(ev)
        keep            == [attempts |-> tool_attempts, sleep |-> FALSE, delay |-> 0,
                            raised |-> FALSE]
    IN  IF AlreadyRetrying(ev) THEN keep
        ELSE IF ~IsToolRetryEnabled(tool_name) THEN keep
        ELSE IF ~IsToolErrorResult(ev)
          THEN [keep EXCEPT !.attempts = DeleteAttempt(tool_attempts, tool_use_id)]
        ELSE IF PredicateRejects(error) THEN keep
        ELSE LET n        == NextAttempt(current_attempt)
                 recorded == SetAttempt(tool_attempts, tool_use_id, n)
             IN  IF MaxAttemptsReached(n, config.max_attempts)
                   THEN [keep EXCEPT !.attempts = recorded]
                 ELSE IF IntToFloatOverflows(n - 1)
                   THEN [keep EXCEPT !.attempts = recorded, !.raised = TRUE]
                   ELSE [keep EXCEPT !.attempts = recorded, !.sleep = TRUE,
                         !.delay = CalculateToolDelay(n - 1, config.initial_delay,
                                                      config.max_delay)]

\* History: the event is one the retry budget counts, a failure that arrives
\* unclaimed for a retry-enabled tool and that the predicate (if any) approves.
CountedFailure(ev) ==
    /\ ~ev.retry
    /\ IsToolRetryEnabled(ev.tool_use.name)
    /\ IsToolErrorResult(ev)
    /\ ~PredicateRejects(GetToolErrorForPredicate(ev))

\* History: the event is a success that the handler does not skip.
CountedSuccess(ev) ==
    /\ ~ev.retry
    /\ IsToolRetryEnabled(ev.tool_use.name)
    /\ ~IsToolErrorResult(ev)

Count(id) == Get(tool_attempts, id, 0)

HandleAfterToolCall(id, ev) ==
    /\ phase = "ready"
    /\ tool_task[id] = Idle
    /\ LET out == ToolStep(ev)
           n   == IF CountedFailure(ev) THEN failures[id] + 1
                  ELSE IF CountedSuccess(ev) THEN 0 ELSE failures[id]
       IN
        /\ tool_attempts' = out.attempts
        /\ tool_task' = [tool_task EXCEPT ![id] =
              IF out.sleep THEN [pc |-> "sleep", delay |-> out.delay, ev |-> ev]
                           ELSE Idle]
        /\ last' = [op |-> "tool", key |-> id,
                    stage |-> IF out.raised THEN "raised"
                              ELSE IF out.sleep THEN "suspended" ELSE "returned",
                    ev |-> ev, event |-> ev, retry |-> ev.retry, slept |-> FALSE,
                    delay |-> out.delay, entry |-> Count(id),
                    asked |-> PredicateCall(ev)]
        /\ failures' = [failures EXCEPT ![id] = n]
        /\ exhausted' = [exhausted EXCEPT ![id] =
              @ \/ (CountedFailure(ev)
                      /\ n >= GetToolConfig(ev.tool_use.name).max_attempts)]
        /\ spent' = [spent EXCEPT ![id] =
              IF CountedSuccess(ev) THEN FALSE
              ELSE @ \/ (CountedFailure(ev)
                           /\ n >= GetToolConfig(ev.tool_use.name).max_attempts)]
    /\ UNCHANGED <<args, registry, phase, cfg, model_current_attempt,
                   backwards_compatible_event_to_yield, model_task>>

\* The rest of _handle_after_tool_call, after the sleep: `event.retry = True`.
ToolResume(id) ==
    /\ tool_task[id].pc = "sleep"
    /\ tool_task' = [tool_task EXCEPT ![id] = Idle]
    /\ last' = [op |-> "tool", key |-> id, stage |-> "returned",
                ev |-> tool_task[id].ev, event |-> SetRetry(tool_task[id].ev),
                retry |-> TRUE, slept |-> TRUE, delay |-> tool_task[id].delay]
    /\ UNCHANGED <<args, registry, phase, cfg, strategy, model_task, failures, exhausted, spent>>

\* Mutant: a cancelled handler takes its attempt back.
ToolCancelWithRollback(id) ==
    /\ tool_task[id].pc = "sleep"
    /\ tool_task' = [tool_task EXCEPT ![id] = Idle]
    /\ last' = [op |-> "tool", key |-> id, stage |-> "cancelled",
                ev |-> tool_task[id].ev, event |-> tool_task[id].ev,
                retry |-> FALSE, slept |-> TRUE, delay |-> tool_task[id].delay]
    /\ tool_attempts' = [i \in DOMAIN tool_attempts |->
                            IF i = id THEN tool_attempts[i] - 1 ELSE tool_attempts[i]]
    /\ UNCHANGED <<args, registry, phase, cfg, model_current_attempt,
                   backwards_compatible_event_to_yield, model_task, failures,
                   exhausted, spent>>

\* The task is cancelled in its sleep: the flag is never set.
ToolCancel(id) ==
    /\ tool_task[id].pc = "sleep"
    /\ tool_task' = [tool_task EXCEPT ![id] = Idle]
    /\ last' = [op |-> "tool", key |-> id, stage |-> "cancelled",
                ev |-> tool_task[id].ev, event |-> tool_task[id].ev,
                retry |-> FALSE, slept |-> TRUE, delay |-> tool_task[id].delay]
    /\ UNCHANGED <<args, registry, phase, cfg, strategy, model_task, failures, exhausted, spent>>

\* ------------------------------------------------------------------- reset

\* Mutant: _reset_state without `self._tool_attempts.clear()`.
ResetModelStateOnly ==
    /\ model_current_attempt' = 0
    /\ backwards_compatible_event_to_yield' = NoThrottleEvent
    /\ UNCHANGED tool_attempts

\* Mutant: _reset_state without clearing the cached throttle event.
ResetStateKeepingNotification ==
    /\ model_current_attempt' = 0
    /\ UNCHANGED backwards_compatible_event_to_yield
    /\ tool_attempts' = EmptyDict

\* _reset_state
ResetState ==
    /\ model_current_attempt' = 0
    /\ backwards_compatible_event_to_yield' = NoThrottleEvent
    /\ tool_attempts' = EmptyDict

\* _handle_after_invocation
HandleAfterInvocation ==
    /\ phase = "ready"
    /\ ResetState
    /\ last' = [op |-> "reset", stage |-> "returned", retry |-> FALSE,
                slept |-> FALSE, delay |-> 0,
                before |-> [attempt |-> model_current_attempt,
                            yield |-> backwards_compatible_event_to_yield,
                            ids |-> DOMAIN tool_attempts]]
    /\ failures' = [i \in ToolUseIds |-> 0]
    /\ exhausted' = [i \in ToolUseIds |-> FALSE]
    /\ spent' = [i \in ToolUseIds |-> FALSE]
    /\ UNCHANGED <<args, registry, phase, cfg, tool_task, model_task>>

\* ------------------------------------------- the hook bus as an environment

NoneSuspended ==
    /\ \A id \in ToolUseIds : tool_task[id] = Idle
    /\ \A t \in ModelTasks : model_task[t] = Idle

\* Any after-tool-call event, for any identifier whose previous event has been
\* handled (one identifier's events arrive one after the other).
PublishToolEvent ==
    \E id \in ToolUseIds : \E ev \in ToolEvents(id) :
        /\ IsToolErrorResult(ev) => Count(id) < MaxCount
        /\ HandleAfterToolCall(id, ev)
        /\ UNCHANGED caller

WakeTool == \E id \in ToolUseIds : ToolResume(id) /\ UNCHANGED caller

CancelTool == \E id \in ToolUseIds : ToolCancel(id) /\ UNCHANGED caller

PublishModelEvent ==
    \E t \in ModelTasks : \E ev \in ModelEvents :
        HandleAfterModelCall(t, ev) /\ UNCHANGED caller

WakeModel == \E t \in ModelTasks : ModelResume(t) /\ UNCHANGED caller

CancelModel == \E t \in ModelTasks : ModelCancel(t) /\ UNCHANGED caller

PublishAfterInvocation == HandleAfterInvocation /\ UNCHANGED caller

\* The agent's event loop: it awaits the callbacks of one event before it
\* publishes the next, so at most one handler is suspended at a time.
AwaitedToolEvent == NoneSuspended /\ PublishToolEvent

AwaitedModelEvent ==
    /\ NoneSuspended
    /\ \E ev \in ModelEvents : HandleAfterModelCall("m1", ev)
    /\ UNCHANGED caller

Fresh ==
    /\ phase = "new"
    /\ cfg = NoCfg
    /\ model_current_attempt = 0
    /\ backwards_compatible_event_to_yield = NoThrottleEvent
    /\ tool_attempts = EmptyDict
    /\ tool_task = [i \in ToolUseIds |-> Idle]
    /\ model_task = [t \in ModelTasks |-> Idle]
    /\ last = NoStep
    /\ failures = [i \in ToolUseIds |-> 0]
    /\ exhausted = [i \in ToolUseIds |-> FALSE]
    /\ spent = [i \in ToolUseIds |-> FALSE]
    /\ registry = EmptyRegistry

\* One agent invocation after the other, every event awaited.
Init == args \in ArgChoices /\ Fresh /\ caller = NoCaller

Next ==
    \/ Construct
    \/ AwaitedToolEvent
    \/ WakeTool
    \/ CancelTool
    \/ AwaitedModelEvent
    \/ WakeModel
    \/ CancelModel
    \/ PublishAfterInvocation

Spec == Init /\ [][Next]_vars

\* Concurrent tool executions of one model turn: the handlers of distinct
\* identifiers interleave at their sleeps, and so does the reset of another
\* agent that shares the strategy.
NextTool ==
    \/ Construct
    \/ PublishToolEvent
    \/ WakeTool
    \/ CancelTool
    \/ PublishAfterInvocation

SpecTool == Init /\ [][NextTool]_vars

\* Two model calls in flight on one strategy (two agents that share it, or two
\* concurrent invocations): their after-model-call handlers interleave at
\* their sleeps.
NextModel ==
    \/ Construct
    \/ PublishModelEvent
    \/ WakeModel
    \/ CancelModel
    \/ PublishAfterInvocation

SpecModel == Init /\ [][NextModel]_vars

\* One call that keeps failing under a strategy with a large budget and a
\* short backoff: the model call of an agent throttled over and over, or one
\* tool call (tool_a) that fails over and over.
ManyAttempts == FloatMaxExp + 2

LongRunArgChoices ==
    { [DefaultArgs EXCEPT !.model_max_attempts = ManyAttempts,
                          !.model_initial_delay = 1,
                          !.model_max_delay = 1],
      [DefaultArgs EXCEPT !.model_max_attempts = 1,
                          !.tool_max_attempts = ManyAttempts,
                          !.tool_initial_delay = 1,
                          !.tool_max_delay = 1,
                          !.tool_enabled_tools = ListOf({"tool_a"})] }

AwaitedRepeatedToolEvent ==
    /\ NoneSuspended
    /\ \E ev \in ToolEvents("id-1") :
          /\ IsToolErrorResult(ev) => Count("id-1") <= FloatMaxExp
          /\ HandleAfterToolCall("id-1", ev)
    /\ UNCHANGED caller

InitLongRun == args \in LongRunArgChoices /\ Fresh /\ caller = NoCaller

NextLongRun ==
    \/ Construct
    \/ AwaitedRepeatedToolEvent
    \/ WakeTool
    \/ AwaitedModelEvent
    \/ WakeModel
    \/ PublishAfterInvocation

SpecLongRun == InitLongRun /\ [][NextLongRun]_vars

\* One strategy shared by two agents: the tool executions of one agent's
\* invocation interleave with the after-invocation reset of the other. The
\* history kept per identifier: how often its handler set retry, and whether
\* every event published for it so far was a failure.
SharedHistory ==
    [ mode |-> "shared",
      granted |-> [i \in ToolUseIds |-> 0],
      all_failures |-> [i \in ToolUseIds |-> TRUE] ]

SharedToolEvent ==
    \E id \in ToolUseIds : \E ev \in ToolEvents(id) :
        /\ IsToolErrorResult(ev) => Count(id) < MaxCount /\ caller.granted[id] < MaxCount
        /\ HandleAfterToolCall(id, ev)
        /\ caller' = [caller EXCEPT !.all_failures[id] = @ /\ IsToolErrorResult(ev)]

SharedWakeTool ==
    \E id \in ToolUseIds :
        /\ ToolResume(id)
        /\ caller' = [caller EXCEPT !.granted[id] = @ + 1]

SharedAfterInvocation == PublishAfterInvocation

\* The configurations with one global budget for every tool.
SharedArgChoices ==
    { a \in ArgChoices : /\ a.tool_max_attempts > 0
                         /\ a.tool_configs = NoToolConfigs
                         /\ ~a.tool_enabled_tools.given
                         /\ ~a.tool_disabled_tools.given }

InitShared == args \in SharedArgChoices /\ Fresh /\ caller = SharedHistory

NextShared ==
    \/ Construct
    \/ SharedToolEvent
    \/ SharedWakeTool
    \/ SharedAfterInvocation

SpecShared == InitShared /\ [][NextShared]_vars

\* -------------------------------------------------------- the calling loop

\* The agent's loop around the hooks, for one invocation: it calls the model
\* and calls it again exactly when the after-model-call callbacks leave
\* retry set; it then executes the tool calls of the turn, each one again
\* exactly when the after-tool-call callbacks leave retry set; it then
\* publishes the after-invocation event.  No other callback sets retry.

Always == -1

ToolScripts == (0..MaxFails) \cup {Always}

ModelScripts == (0..MaxThrottles) \cup {Always}

\* The n-th call fails under script k.
ScriptFails(k, n) == k = Always \/ n <= k

\* A script of k failures ends at its (k+1)-th execution at the latest; a
\* loop that is still failing after MaxFails + 2 executions is cut.
MaxExecutions == MaxFails + 2

CallerArgChoices ==
    { a \in ArgChoices : a.model_max_attempts = 2 /\ ~BothListsGiven(a) }

FailingOutcomes == { o \in ToolOutcomes :
                       o.exception # NoException \/ o.result.status = "error" }

SucceedingOutcomes == ToolOutcomes \ FailingOutcomes

ThrottledOutcome == [exception |-> Exc("ModelThrottledException", "throttled"),
                     stop_response |-> "None"]

StopOutcome == [exception |-> NoException, stop_response |-> "end_turn"]

InitCaller ==
    /\ args \in CallerArgChoices
    /\ Fresh
    /\ \E j \in ModelScripts :
         caller = [ mode |-> "loop", stage |-> "model",
                    throttles |-> j, model_calls |-> 0, model_sleeps |-> 0,
                    model_state |-> "call",
                    fails |-> [i \in ToolUseIds |-> 0],
                    execs |-> [i \in ToolUseIds |-> 0],
                    sleeps |-> [i \in ToolUseIds |-> 0],
                    delays |-> [i \in ToolUseIds |-> << >>],
                    rejected |-> [i \in ToolUseIds |-> FALSE],
                    state |-> [i \in ToolUseIds |-> "call"] ]

CallerModelCall ==
    /\ caller.stage = "model"
    /\ caller.model_state = "call"
    /\ caller.model_calls < MaxThrottles + 3
    /\ LET n  == caller.model_calls + 1
           o  == IF ScriptFails(caller.throttles, n) THEN ThrottledOutcome
                                                     ELSE StopOutcome
           ev == [exception |-> o.exception, stop_response |-> o.stop_response,
                  retry |-> FALSE]
           sleeping == ModelStep(ev).sleep
       IN  /\ HandleAfterModelCall("m1", ev)
           /\ caller' = [caller EXCEPT
                 !.model_calls = n,
                 !.model_sleeps = @ + (IF sleeping THEN 1 ELSE 0),
                 !.model_state = IF sleeping THEN "wait" ELSE "done"]

\* The handler returns with retry set: the model is called again.
CallerModelRetry ==
    /\ caller.stage = "model"
    /\ caller.model_state = "wait"
    /\ ModelResume("m1")
    /\ caller' = [caller EXCEPT !.model_state = "call"]

\* The model has answered with the tool uses of the turn.
CallerStartTools ==
    /\ caller.stage = "model"
    /\ caller.model_state = "done"
    /\ \E f \in [ToolUseIds -> ToolScripts] :
         caller' = [caller EXCEPT !.stage = "tools", !.fails = f]
    /\ UNCHANGED <<args, registry, phase, cfg, strategy, tool_task, model_task, last,
                   failures, exhausted, spent>>

CallerToolCall ==
    \E id \in ToolUseIds :
        /\ caller.stage = "tools"
        /\ caller.state[id] = "call"
        /\ caller.execs[id] < MaxExecutions
        /\ LET n == caller.execs[id] + 1 IN
           \E o \in (IF ScriptFails(caller.fails[id], n) THEN FailingOutcomes
                                                        ELSE SucceedingOutcomes) :
             LET ev == [tool_use |-> ToolUse(id), result |-> o.result,
                        exception |-> o.exception, retry |-> FALSE]
                 sleeping == ToolStep(ev).sleep
                 delay == ToolStep(ev).delay
             IN  /\ HandleAfterToolCall(id, ev)
                 /\ caller' = [caller EXCEPT
                       !.execs[id] = n,
                       !.sleeps[id] = @ + (IF sleeping THEN 1 ELSE 0),
                       !.delays[id] = IF sleeping THEN Append(@, delay) ELSE @,
                       !.rejected[id] = @ \/ (IsToolErrorResult(ev)
                            /\ PredicateRejects(GetToolErrorForPredicate(ev))),
                       !.state[id] = IF sleeping THEN "wait" ELSE "done"]

\* The handler returns with retry set: the tool is executed again.
CallerToolRetry ==
    \E id \in ToolUseIds :
        /\ caller.stage = "tools"
        /\ caller.state[id] = "wait"
        /\ ToolResume(id)
        /\ caller' = [caller EXCEPT !.state[id] = "call"]

CallerFinish ==
    /\ caller.stage = "tools"
    /\ \A id \in ToolUseIds : caller.state[id] = "done"
    /\ HandleAfterInvocation
    /\ caller' = [caller EXCEPT !.stage = "finished"]

CallerConstruct == Construct

NextCaller ==
    \/ CallerConstruct
    \/ CallerModelCall
    \/ CallerModelRetry
    \/ CallerStartTools
    \/ CallerToolCall
    \/ CallerToolRetry
    \/ CallerFinish

SpecCaller == InitCaller /\ [][NextCaller]_vars

\* The loop for the calls that keep failing, under fair scheduling: the model
\* call is throttled every time or never, each tool call fails once or every
\* time; asyncio wakes every sleeping handler, and the loop, never blocked by
\* anything else, takes its next step.
FairArgChoices ==
    { a \in CallerArgChoices : /\ a.tool_configs = NoToolConfigs
                               /\ ~a.tool_enabled_tools.given
                               /\ ~a.tool_disabled_tools.given }

InitCallerFair ==
    /\ InitCaller
    /\ args \in FairArgChoices
    /\ caller.throttles \in {0, Always}

CallerStartFailingTools ==
    /\ caller.stage = "model"
    /\ caller.model_state = "done"
    /\ \E f \in [ToolUseIds -> {1, Always}] :
         caller' = [caller EXCEPT !.stage = "tools", !.fails = f]
    /\ UNCHANGED <<args, registry, phase, cfg, strategy, tool_task, model_task, last,
                   failures, exhausted, spent>>

NextCallerFair ==
    \/ CallerConstruct
    \/ CallerModelCall
    \/ CallerModelRetry
    \/ CallerStartFailingTools
    \/ CallerToolCall
    \/ CallerToolRetry
    \/ CallerFinish

SpecCallerFair ==
    InitCallerFair /\ [][NextCallerFair]_vars /\ WF_vars(NextCallerFair)

\* ------------------------------------------------------------- the hook bus

\* The strategy registered with a hook registry, and events published
\* through it: a published event runs the callbacks registered for its class.

\* HookRegistry.add_callback
AddCallback(r, class, callback) == [r EXCEPT ![class] = Append(@, callback)]

\* Mutant: the tool handler is registered for the model event as well.
RegisterHooksToolHandlerTwice(r) ==
    AddCallback(
      AddCallback(
        AddCallback(
          AddCallback(r, "AfterModelCallEvent", "_handle_after_model_call"),
          "AfterModelCallEvent", "_handle_after_tool_call"),
        "AfterToolCallEvent", "_handle_after_tool_call"),
      "AfterInvocationEvent", "_handle_after_invocation")

\* register_hooks
RegisterHooks(r) ==
    AddCallback(
      AddCallback(
        AddCallback(r, "AfterModelCallEvent", "_handle_after_model_call"),
        "AfterToolCallEvent", "_handle_after_tool_call"),
      "AfterInvocationEvent", "_handle_after_invocation")

\* The agent registers the strategy with its registry, once.
Register ==
    /\ phase = "ready"
    /\ registry = EmptyRegistry
    /\ registry' = RegisterHooks(registry)
    /\ last' = [NoStep EXCEPT !.op = "register"]
    /\ UNCHANGED <<args, phase, cfg, strategy, tool_task, model_task,
                   failures, exhausted, spent, caller>>

\* What the bus did last: the class of the event it published, the callbacks
\* registered for that class, and the one it has run.
Dispatched(class, callback) ==
    [mode |-> "bus", published |-> class, callbacks |-> registry[class],
     ran |-> callback]

\* The bus runs a callback with the published event.  A callback gets the
\* event whatever its class is; the strategy's handlers read the fields of
\* their own event class, so each is run here on an event of its class.
RunCallback(callback) ==
    \/ /\ callback = "_handle_after_model_call"
       /\ \E ev \in ModelEvents : HandleAfterModelCall("m1", ev)
    \/ /\ callback = "_handle_after_tool_call"
       /\ \E id \in ToolUseIds : \E ev \in ToolEvents(id) :
            /\ IsToolErrorResult(ev) => Count(id) < MaxCount
            /\ HandleAfterToolCall(id, ev)
    \/ /\ callback = "_handle_after_invocation"
       /\ HandleAfterInvocation

\* An event of the class is published: the callbacks registered for it run.
Dispatch(class) ==
    /\ NoneSuspended
    /\ \E i \in 1..Len(registry[class]) :
         /\ RunCallback(registry[class][i])
         /\ caller' = Dispatched(class, registry[class][i])

DispatchModelEvent == Dispatch("AfterModelCallEvent")

DispatchToolEvent == Dispatch("AfterToolCallEvent")

DispatchInvocationEvent == Dispatch("AfterInvocationEvent")

BusConstruct == Construct

NextBus ==
    \/ BusConstruct
    \/ Register
    \/ DispatchModelEvent
    \/ DispatchToolEvent
    \/ DispatchInvocationEvent
    \/ WakeTool
    \/ CancelTool
    \/ WakeModel
    \/ CancelModel

SpecBus == Init /\ [][NextBus]_vars

\* ------------------------------------------------------------------ claims

\* The step just taken is _handle_after_tool_call, called with last.ev, up to
\* its sleep or its return.
ToolCalled == last.op = "tool" /\ ~last.slept

ModelCalled == last.op = "model" /\ ~last.slept

EffectiveMaxAttempts(id) == GetToolConfig(ToolNameOf(id)).max_attempts

\* C1: for an identifier of a retry-enabled tool with effective max_attempts
\* M >= 1, the n-th consecutive counted failure (no success or reset since
\* the identifier had no record) makes the handler sleep and then set retry
\* when n < M, and makes it return with retry false when n = M, the recorded
\* count then being M.
C1_RetryUntilMaxAttempts ==
    /\ \A id \in ToolUseIds :
         ( /\ ToolCalled
           /\ last.key = id
           /\ CountedFailure(last.ev)
           /\ EffectiveMaxAttempts(id) >= 1
           /\ failures[id] <= EffectiveMaxAttempts(id) )
         => IF failures[id] < EffectiveMaxAttempts(id)
              THEN last.stage = "suspended"
              ELSE /\ last.stage = "returned"
                   /\ ~last.retry
                   /\ id \in DOMAIN tool_attempts
                   /\ tool_attempts[id] = EffectiveMaxAttempts(id)
    /\ (last.op = "tool" /\ last.slept /\ last.stage = "returned") => last.retry

\* C1 witness: the third failure of an identifier with max_attempts 3 has
\* been refused after two failures were granted a retry.
C1_Witness ==
    /\ ToolCalled
    /\ CountedFailure(last.ev)
    /\ EffectiveMaxAttempts(last.key) = 3
    /\ failures[last.key] = 3
    /\ last.entry = 2
    /\ last.stage = "returned"
    /\ ~last.retry

\* What the claim expects of a tool that fails its first k executions (or all
\* of them) under a budget of M.
ExpectedExecutions(k, M) == IF k = Always THEN M ELSE Min(k + 1, M)

ExpectedSleeps(k, M) == IF k = Always THEN M - 1 ELSE Min(k, M - 1)

LoopDone(id) ==
    /\ caller.mode = "loop"
    /\ caller.stage # "model"
    /\ caller.state[id] = "done"

\* C2 as stated: in the calling loop, a tool that fails its first k
\* executions is executed min(k+1, M) times and the handler sleeps
\* min(k, M-1) times, M >= 1 being the tool's effective max_attempts; an
\* always-failing tool is executed M times.
C2_ExecutionsInLoop ==
    \A id \in ToolUseIds :
        (LoopDone(id) /\ EffectiveMaxAttempts(id) >= 1)
        => /\ caller.execs[id] =
                 ExpectedExecutions(caller.fails[id], EffectiveMaxAttempts(id))
           /\ caller.sleeps[id] =
                 ExpectedSleeps(caller.fails[id], EffectiveMaxAttempts(id))

\* C2 amended: the same, for a tool that retries are enabled for and whose
\* failures the should_retry predicate (if any) approves.
C2_ExecutionsInLoopWhenEnabled ==
    \A id \in ToolUseIds :
        ( /\ LoopDone(id)
          /\ EffectiveMaxAttempts(id) >= 1
          /\ IsToolRetryEnabled(ToolNameOf(id))
          /\ ~caller.rejected[id] )
        => /\ caller.execs[id] =
                 ExpectedExecutions(caller.fails[id], EffectiveMaxAttempts(id))
           /\ caller.sleeps[id] =
                 ExpectedSleeps(caller.fails[id], EffectiveMaxAttempts(id))

\* C2 witness: with max_attempts 3, an always-failing tool has been executed
\* three times with two sleeps, and a tool that fails once has been executed
\* twice with one sleep.
C2_Witness ==
    /\ LoopDone("id-1") /\ LoopDone("id-2")
    /\ EffectiveMaxAttempts("id-1") = 3 /\ EffectiveMaxAttempts("id-2") = 3
    /\ IsToolRetryEnabled("tool_a") /\ IsToolRetryEnabled("tool_b")
    /\ caller.fails["id-1"] = Always
    /\ caller.execs["id-1"] = 3 /\ caller.sleeps["id-1"] = 2
    /\ caller.fails["id-2"] = 1
    /\ caller.execs["id-2"] = 2 /\ caller.sleeps["id-2"] = 1

\* C3: in the calling loop, under uninterrupted throttling from counter 0,
\* the model is called at most model_max_attempts times, the handler
\* granting at most model_max_attempts - 1 retries.
C3_ModelCallsWithinMaxAttempts ==
    (caller.mode = "loop" /\ phase = "ready" /\ cfg.model_max_attempts >= 1)
        => /\ caller.model_calls <= cfg.model_max_attempts
           /\ caller.model_sleeps <= cfg.model_max_attempts - 1

\* C4 as stated: once an identifier's count has reached max_attempts, every
\* further (unclaimed) failure event before the next reset is refused.
C4_ExhaustionTerminal ==
    \A id \in ToolUseIds :
        ( /\ ToolCalled
          /\ last.key = id
          /\ ~last.ev.retry
          /\ IsToolErrorResult(last.ev)
          /\ exhausted[id] )
        => (last.stage = "returned" /\ ~last.retry)

\* C4 amended: once an identifier's count has reached max_attempts, every
\* further failure event is refused until a reset or a handled success event
\* for that identifier.
C4_ExhaustionTerminalUntilSuccess ==
    \A id \in ToolUseIds :
        ( /\ ToolCalled
          /\ last.key = id
          /\ ~last.ev.retry
          /\ IsToolErrorResult(last.ev)
          /\ spent[id] )
        => (last.stage = "returned" /\ ~last.retry)

\* C4 witness: a failure event arrives for an identifier whose count was
\* already at max_attempts, and is refused.
C4_Witness ==
    /\ ToolCalled
    /\ CountedFailure(last.ev)
    /\ EffectiveMaxAttempts(last.key) = 2
    /\ last.entry = 2
    /\ spent[last.key]
    /\ tool_attempts[last.key] = 3
    /\ ~last.retry

\* C5: a handler called with retry already true returns at once: it does
\* not sleep, and the model counter, the cached throttle event, the attempt
\* map and the flag are as they were.
C5_FirstClaimWins ==
    [][ ((last'.op = "tool" \/ last'.op = "model") /\ ~last'.slept /\ last'.ev.retry)
        => /\ UNCHANGED <<model_current_attempt,
                          backwards_compatible_event_to_yield, tool_attempts,
                          tool_task, model_task>>
           /\ last'.stage = "returned"
           /\ last'.retry ]_vars

\* C5 witness: a claimed failure event of a retry-enabled tool has been
\* handled for an identifier with one recorded attempt, which stays one.
C5_Witness ==
    /\ ToolCalled
    /\ last.ev.retry
    /\ IsToolErrorResult(last.ev)
    /\ IsToolRetryEnabled(last.ev.tool_use.name)
    /\ EffectiveMaxAttempts(last.key) >= 2
    /\ last.entry = 1
    /\ Count(last.key) = 1
    /\ last.retry

\* C6: under any interleaving, each identifier's recorded count is the
\* number of its own counted failures since it last had no record, and the
\* decision on each of its failures depends on that number alone.
C6_PerIdentifierIsolation ==
    phase = "ready" =>
      \A id \in ToolUseIds :
        /\ Count(id) = failures[id]
        /\ (id \in DOMAIN tool_attempts <=> failures[id] > 0)
        /\ (ToolCalled /\ last.key = id /\ CountedFailure(last.ev))
             => (last.stage = "suspended"
                   <=> failures[id] < EffectiveMaxAttempts(id))

\* C6 witness: a success of id-2 is handled, and removes its record, while
\* the handler of id-1 sleeps with two attempts recorded.
C6_Witness ==
    /\ tool_task["id-1"].pc = "sleep"
    /\ Count("id-1") = 2
    /\ ToolCalled
    /\ last.key = "id-2"
    /\ CountedSuccess(last.ev)
    /\ last.entry >= 1
    /\ "id-2" \notin DOMAIN tool_attempts

\* C7 as stated: after the handler has been called with a success event, the
\* identifier is absent from the attempt map.
C7_SuccessClears ==
    (ToolCalled /\ ~IsToolErrorResult(last.ev))
        => last.key \notin DOMAIN tool_attempts

\* C7 amended: after the handler has been called with a success event whose
\* retry flag was not already set, the identifier is absent from the map.
C7_UnclaimedSuccessClears ==
    (ToolCalled /\ ~IsToolErrorResult(last.ev) /\ ~last.ev.retry)
        => last.key \notin DOMAIN tool_attempts

\* C7 witness: a success event was handled for an identifier that had two
\* attempts recorded.
C7_Witness ==
    /\ ToolCalled
    /\ ~IsToolErrorResult(last.ev)
    /\ ~last.ev.retry
    /\ last.entry = 2
    /\ last.key \notin DOMAIN tool_attempts

\* C8: after _handle_after_invocation the model counter is 0, the cached
\* throttle event is None and the attempt map is empty, whatever they were;
\* the configuration is the one the constructor stored.
C8_ResetClearsState ==
    [][ last'.op = "reset"
        => /\ model_current_attempt' = 0
           /\ backwards_compatible_event_to_yield' = NoThrottleEvent
           /\ tool_attempts' = EmptyDict
           /\ cfg' = cfg
           /\ cfg' = ConfigOf(args') ]_vars

\* C8 witness: a reset has run in a state with a model counter of 2, a cached
\* throttle event and a recorded tool attempt.
C8_Witness ==
    /\ last.op = "reset"
    /\ last.before.attempt = 2
    /\ last.before.yield # NoThrottleEvent
    /\ last.before.ids # {}
    /\ tool_attempts = EmptyDict

\* C9: a failure event that arrives unclaimed and whose derived error the
\* configured predicate rejects leaves retry false, causes no sleep and
\* leaves the attempt map as it was.
C9_PredicateGate ==
    [][ ( /\ last'.op = "tool"
          /\ ~last'.slept
          /\ ~last'.ev.retry
          /\ IsToolErrorResult(last'.ev)
          /\ cfg.tool_should_retry # "None"
          /\ ~ShouldRetry(cfg.tool_should_retry, GetToolErrorForPredicate(last'.ev)) )
        => /\ last'.stage = "returned"
           /\ ~last'.retry
           /\ tool_attempts' = tool_attempts
           /\ tool_task' = tool_task ]_vars

\* C9 witness: the predicate has rejected a failure of an identifier with
\* one attempt recorded, and the count is still one.
C9_Witness ==
    /\ ToolCalled
    /\ ~last.ev.retry
    /\ IsToolErrorResult(last.ev)
    /\ IsToolRetryEnabled(last.ev.tool_use.name)
    /\ cfg.tool_should_retry # "None"
    /\ ~ShouldRetry(cfg.tool_should_retry, GetToolErrorForPredicate(last.ev))
    /\ last.entry = 1
    /\ Count(last.key) = 1
    /\ ~last.retry

BothSupplied == args.tool_enabled_tools.given /\ args.tool_disabled_tools.given

\* C10: a constructor call with both lists supplied raises: self has no
\* field, and no handler ever runs; a call with at most one list succeeds.
C10_ConstructionGuard ==
    /\ (BothSupplied /\ phase # "new")
         => /\ phase = "error"
            /\ cfg = NoCfg
            /\ last.op = "construct"
            /\ tool_attempts = EmptyDict
            /\ model_current_attempt = 0
            /\ \A id \in ToolUseIds : tool_task[id] = Idle
            /\ \A t \in ModelTasks : model_task[t] = Idle
    /\ (~BothSupplied /\ phase # "new")
         => (phase = "ready" /\ cfg = ConfigOf(args))

\* C10 witness: the constructor has raised for two empty lists.
C10_Witness ==
    /\ phase = "error"
    /\ args.tool_enabled_tools = ListOf({})
    /\ args.tool_disabled_tools = ListOf({})

\* The allow-list and the deny-list as the constructor was given them.
AllowListConfigured == args.tool_enabled_tools.given

DenyListConfigured == args.tool_disabled_tools.given

\* The handler has been called with a failure event that no earlier callback
\* has claimed.
UnclaimedFailureHandled ==
    /\ ToolCalled
    /\ ~last.ev.retry
    /\ IsToolErrorResult(last.ev)

\* The call left the attempt record of its identifier as it found it.
RecordUntouched ==
    /\ Count(last.key) = last.entry
    /\ last.key \in DOMAIN tool_attempts <=> last.entry > 0

\* C11: with an allow-list configured, a failure event for a tool that is
\* not a member of the list leaves retry false, causes no sleep and leaves
\* the attempt map as it was; a failure event (unclaimed, approved by the
\* predicate) for a member that has budget left is granted a retry.
C11_AllowList ==
    (phase = "ready" /\ AllowListConfigured /\ UnclaimedFailureHandled)
    => IF last.ev.tool_use.name \notin args.tool_enabled_tools.names
         THEN /\ last.stage = "returned"
              /\ ~last.retry
              /\ RecordUntouched
         ELSE ( /\ ~PredicateRejects(GetToolErrorForPredicate(last.ev))
                /\ last.entry + 1 < EffectiveMaxAttempts(last.key) )
              => last.stage = "suspended"

\* C11, for a list with at least one name (the case the constructor keeps).
C11_NonEmptyAllowList ==
    (phase = "ready" /\ AllowListConfigured
        /\ args.tool_enabled_tools.names # {} /\ UnclaimedFailureHandled)
    => IF last.ev.tool_use.name \notin args.tool_enabled_tools.names
         THEN /\ last.stage = "returned"
              /\ ~last.retry
              /\ RecordUntouched
         ELSE ( /\ ~PredicateRejects(GetToolErrorForPredicate(last.ev))
                /\ last.entry + 1 < EffectiveMaxAttempts(last.key) )
              => last.stage = "suspended"

\* C12: with a deny-list configured, a failure event for a tool that is a
\* member of the list leaves retry false, causes no sleep and leaves the
\* attempt map as it was; a failure event (unclaimed, approved by the
\* predicate) for a tool that is not a member and has budget left is granted
\* a retry.
C12_DenyList ==
    (phase = "ready" /\ DenyListConfigured /\ UnclaimedFailureHandled)
    => IF last.ev.tool_use.name \in args.tool_disabled_tools.names
         THEN /\ last.stage = "returned"
              /\ ~last.retry
              /\ RecordUntouched
         ELSE ( /\ ~PredicateRejects(GetToolErrorForPredicate(last.ev))
                /\ last.entry + 1 < EffectiveMaxAttempts(last.key) )
              => last.stage = "suspended"

\* C12 witness: a failure of the deny-listed tool_a has been refused, without
\* a record, while the handler of tool_b sleeps before a granted retry.
C12_Witness ==
    /\ phase = "ready"
    /\ DenyListConfigured
    /\ UnclaimedFailureHandled
    /\ last.ev.tool_use.name \in args.tool_disabled_tools.names
    /\ last.stage = "returned"
    /\ last.key \notin DOMAIN tool_attempts
    /\ tool_task["id-2"].pc = "sleep"
    /\ Count("id-2") = 1

ConstructedWithDefaults == phase = "ready" /\ args = DefaultArgs

\* C13: a strategy constructed with no arguments has model settings 6, 4 s,
\* 240 s; no after-tool-call event makes it sleep, set retry or record an
\* attempt; a first model throttling event (counter 0) makes it sleep 4 s and
\* then set retry.
C13_DefaultAsymmetry ==
    ConstructedWithDefaults
    => /\ cfg.model_max_attempts = 6
       /\ cfg.model_initial_delay = Sec(4)
       /\ cfg.model_max_delay = Sec(240)
       /\ cfg.tool_max_attempts = 0
       /\ tool_attempts = EmptyDict
       /\ \A id \in ToolUseIds : tool_task[id] = Idle
       /\ last.op = "tool"
            => (last.stage = "returned" /\ ~last.slept /\ last.retry = last.ev.retry)
       /\ ( /\ ModelCalled
            /\ ~last.ev.retry
            /\ IsModelThrottled(last.ev)
            /\ last.ev.stop_response = "None"
            /\ last.entry = 0 )
            => (last.stage = "suspended" /\ last.delay = Sec(4))
       /\ (last.op = "model" /\ last.slept /\ last.stage = "returned") => last.retry

\* C13 witness: the default strategy has granted a first model retry (the
\* counter is 1, the cached event holds 4 s) and has then returned from an
\* unclaimed tool failure without a record.
C13_Witness ==
    /\ ConstructedWithDefaults
    /\ UnclaimedFailureHandled
    /\ last.stage = "returned"
    /\ tool_attempts = EmptyDict
    /\ model_current_attempt = 1
    /\ backwards_compatible_event_to_yield = EventLoopThrottleEvent(4)

\* The tool has a per-tool override whose max_attempts is positive.
HasPositiveOverride(tool_name) ==
    /\ tool_name \in DOMAIN args.tool_configs
    /\ "max_attempts" \in DOMAIN args.tool_configs[tool_name]
    /\ args.tool_configs[tool_name].max_attempts > 0

\* The tool passes the allow-list or deny-list the constructor was given.
PassesFilter(tool_name) ==
    /\ AllowListConfigured => tool_name \in args.tool_enabled_tools.names
    /\ DenyListConfigured => tool_name \notin args.tool_disabled_tools.names

OverrideOr(tool_name, field, global) ==
    IF tool_name \in DOMAIN args.tool_configs
         /\ field \in DOMAIN args.tool_configs[tool_name]
      THEN args.tool_configs[tool_name][field]
      ELSE global

\* The configuration of the scenario: override (5, 2 s) for tool_a over the
\* globals (2, 1 s).
OverrideScenario ==
    /\ args.tool_max_attempts = 2
    /\ args.tool_initial_delay = Sec(1)
    /\ "tool_a" \in DOMAIN args.tool_configs
    /\ args.tool_configs["tool_a"] = [max_attempts |-> 5, initial_delay |-> Sec(2)]

\* C15: the handler takes max_attempts, initial_delay and max_delay each from
\* the tool's override when the override has that field and from the global
\* argument otherwise: a counted failure is granted a retry exactly while the
\* new count is below that max_attempts, and sleeps the delay those values
\* give.  In the scenario an always-failing tool_a is granted four retries
\* with delays 2, 4, 8 and 16 s, and tool_b one retry with delay 1 s.
C15_OverridePrecedence ==
    /\ ( /\ phase = "ready"
         /\ UnclaimedFailureHandled
         /\ IsToolRetryEnabled(last.ev.tool_use.name)
         /\ ~PredicateRejects(GetToolErrorForPredicate(last.ev)) )
       => LET name == last.ev.tool_use.name
              max_attempts  == OverrideOr(name, "max_attempts", args.tool_max_attempts)
              initial_delay == OverrideOr(name, "initial_delay", args.tool_initial_delay)
              max_delay     == OverrideOr(name, "max_delay", args.tool_max_delay)
          IN  /\ Count(last.key) = last.entry + 1
              /\ last.stage = "suspended" <=> last.entry + 1 < max_attempts
              /\ last.stage = "suspended"
                   => last.delay = Min(initial_delay * 2 ^ last.entry, max_delay)
    /\ \A id \in ToolUseIds :
         (OverrideScenario /\ LoopDone(id) /\ caller.fails[id] = Always)
         => caller.delays[id] =
              IF ToolNameOf(id) = "tool_a"
                THEN <<Sec(2), Sec(4), Sec(8), Sec(16)>>
                ELSE <<Sec(1)>>

\* C15 witness: the scenario has run to its end for both tools.
C15_Witness ==
    /\ OverrideScenario
    /\ LoopDone("id-1") /\ LoopDone("id-2")
    /\ caller.fails["id-1"] = Always /\ caller.fails["id-2"] = Always
    /\ caller.execs["id-1"] = 5
    /\ Len(caller.delays["id-1"]) = 4
    /\ caller.delays["id-2"] = <<Sec(1)>>

\* C16: the delay slept before the k-th granted retry of an identifier (k
\* the count after the increment) is min(initial_delay * 2^(k-1), max_delay)
\* with the tool's effective initial_delay and max_delay; over consecutive
\* failures the delays start at initial_delay (for initial_delay <=
\* max_delay), double at each step up to the cap, never decrease and never
\* exceed max_delay.
C16_ToolBackoff ==
    /\ (phase = "ready" /\ ToolCalled /\ last.stage = "suspended")
       => LET config == GetToolConfig(last.ev.tool_use.name)
              k == Count(last.key)
          IN  /\ k = last.entry + 1
              /\ last.delay = Min(config.initial_delay * 2 ^ (k - 1), config.max_delay)
    /\ (phase = "ready" /\ caller.mode = "loop")
       => \A id \in ToolUseIds :
            LET config == GetToolConfig(ToolNameOf(id))
                d == caller.delays[id]
            IN  /\ (Len(d) >= 1 /\ config.initial_delay <= config.max_delay)
                      => d[1] = config.initial_delay
                /\ \A k \in 1..Len(d) :
                     /\ d[k] = Min(config.initial_delay * 2 ^ (k - 1), config.max_delay)
                     /\ d[k] <= config.max_delay
                     /\ k > 1 => /\ d[k] >= d[k - 1]
                                 /\ d[k] = Min(2 * d[k - 1], config.max_delay)

\* C16 witness: with initial_delay 1.5 s and max_delay 2 s an always-failing
\* tool has been granted three retries, with delays 1.5 s, 2 s and 2 s.
C16_Witness ==
    /\ LoopDone("id-2")
    /\ GetToolConfig("tool_b").initial_delay = 3
    /\ GetToolConfig("tool_b").max_delay = Sec(2)
    /\ caller.delays["id-2"] = <<3, Sec(2), Sec(2)>>

\* C17: a model handler that goes to sleep sleeps min(model_initial_delay *
\* 2^c, model_max_delay), c being the counter, which it has not incremented
\* yet; when it resumes, it caches a throttle event holding that delay
\* truncated to whole seconds, increments the counter and sets retry.
C17_ModelBackoff ==
    [][ /\ (last'.op = "model" /\ last'.stage = "suspended")
           => /\ last'.delay = Min(cfg.model_initial_delay * 2 ^ model_current_attempt,
                                   cfg.model_max_delay)
              /\ model_task'[last'.key] =
                    [pc |-> "sleep", delay |-> last'.delay, ev |-> last'.ev]
              /\ model_current_attempt' = model_current_attempt
        /\ (last'.op = "model" /\ last'.slept /\ last'.stage = "returned")
           => /\ last'.retry
              /\ last'.delay = model_task[last'.key].delay
              /\ backwards_compatible_event_to_yield' =
                    EventLoopThrottleEvent(last'.delay \div TicksPerSecond)
              /\ model_current_attempt' = model_current_attempt + 1 ]_vars

\* C17 witness: a retry has been granted after a sleep of 1.5 s, and the
\* cached event holds 1.
C17_Witness ==
    /\ last.op = "model"
    /\ last.slept
    /\ last.retry
    /\ last.delay = 3
    /\ backwards_compatible_event_to_yield = EventLoopThrottleEvent(1)
    /\ model_current_attempt = 1

\* An unclaimed model event that is a success or whose exception is not a
\* throttling error (an event with neither a response nor an exception
\* included).
NotThrottling(ev) ==
    /\ ~ev.retry
    /\ ev.stop_response # "None" \/ ev.exception.type # "ModelThrottledException"

\* C18: the model handler goes on to a retry only for an unclaimed event
\* whose exception is a throttling error; for an unclaimed success event or
\* non-throttling event it returns with retry false, the counter 0 and no
\* cached throttle event, and a throttle that follows sleeps the delay of
\* attempt 0.
C18_OnlyThrottlingRetried ==
    [][ /\ (last'.op = "model" /\ ~last'.slept)
           => /\ last'.retry = last'.ev.retry
              /\ last'.stage = "suspended"
                   => /\ ~last'.ev.retry
                      /\ last'.ev.exception.type = "ModelThrottledException"
                      /\ last'.ev.stop_response = "None"
              /\ NotThrottling(last'.ev)
                   => /\ last'.stage = "returned"
                      /\ ~last'.retry
                      /\ model_task' = model_task
                      /\ model_current_attempt' = 0
                      /\ backwards_compatible_event_to_yield' = NoThrottleEvent
        /\ (last'.op = "model" /\ last'.slept)
           => model_task[last'.key].pc = "sleep"
        /\ ( /\ last.op = "model" /\ ~last.slept /\ NotThrottling(last.ev)
             /\ last'.op = "model" /\ last'.stage = "suspended" )
           => last'.delay = Min(cfg.model_initial_delay, cfg.model_max_delay) ]_vars

\* C18 witness: an event with a non-throttling exception has been handled
\* with the counter at 1 and a cached throttle event; both are cleared.
C18_Witness ==
    /\ ModelCalled
    /\ ~last.ev.retry
    /\ last.ev.exception.type = "ValueError"
    /\ last.entry = 1
    /\ ~last.retry
    /\ model_current_attempt = 0
    /\ backwards_compatible_event_to_yield = NoThrottleEvent

\* C19: a tool handler increments the identifier's count before it sleeps;
\* when it is cancelled in its sleep the retry flag is still false and the
\* attempt map is left as it is, so the next failure of the identifier
\* counts from the incremented value.
C19_ToolCancellation ==
    [][ /\ (last'.op = "tool" /\ last'.stage = "suspended")
           => /\ last'.key \in DOMAIN tool_attempts'
              /\ tool_attempts'[last'.key] = Count(last'.key) + 1
              /\ ~last'.retry
        /\ (last'.op = "tool" /\ last'.stage = "cancelled")
           => /\ tool_task[last'.key].pc = "sleep"
              /\ tool_task'[last'.key] = Idle
              /\ ~last'.retry
              /\ tool_attempts' = tool_attempts
        /\ ( /\ last.op = "tool" /\ last.stage = "cancelled"
             /\ last'.op = "tool" /\ ~last'.slept /\ last'.key = last.key
             /\ CountedFailure(last'.ev) )
           => /\ last'.key \in DOMAIN tool_attempts'
              /\ tool_attempts'[last'.key] = Count(last'.key) + 1
              /\ last'.stage = "suspended"
                   <=> Count(last'.key) + 1 < EffectiveMaxAttempts(last'.key) ]_vars

\* C19 witness: the handler of an identifier's second failure has been
\* cancelled in its sleep; the flag is false and the count is 2.
C19_Witness ==
    /\ last.op = "tool"
    /\ last.stage = "cancelled"
    /\ ~last.retry
    /\ Count(last.key) = 2
    /\ failures[last.key] = 2

\* C20: a model handler that is cancelled in its sleep, right after it went
\* to sleep, leaves retry false with the attempt recorded: the counter is
\* one higher than when the handler was entered.
C20_ModelCancellationCounted ==
    [][ ( /\ last.op = "model" /\ last.stage = "suspended"
          /\ last'.op = "model" /\ last'.stage = "cancelled"
          /\ last'.key = last.key )
        => /\ ~last'.retry
           /\ model_current_attempt' = last.entry + 1 ]_vars

\* The step just taken handled an event of the identifier that is a success
\* (no exception, status not "error").
SuccessJustProcessed(id) ==
    ToolCalled /\ last.key = id /\ ~IsToolErrorResult(last.ev)

\* C21 as stated: every identifier in the attempt map has had a failure
\* counted since the last reset, the event just processed for it was not a
\* success, and its flow has not ended (its budget is not used up).
C21_AttemptMapInvariant ==
    phase = "ready" =>
      \A id \in DOMAIN tool_attempts :
        /\ failures[id] >= 1
        /\ ~SuccessJustProcessed(id)
        /\ ~spent[id]

\* C21 amended: every identifier in the attempt map has had a failure counted
\* since the last reset and since its last handled success, and a success
\* event that arrived unclaimed has not just been processed for it; an
\* identifier whose budget is used up stays in the map, with its final
\* count, until a success or a reset.
C21_AttemptMapUntilSuccessOrReset ==
    phase = "ready" =>
      /\ \A id \in DOMAIN tool_attempts :
           /\ failures[id] >= 1
           /\ tool_attempts[id] >= 1
           /\ ~(SuccessJustProcessed(id) /\ ~last.ev.retry)
      /\ \A id \in ToolUseIds :
           spent[id] => /\ id \in DOMAIN tool_attempts
                        /\ tool_attempts[id] >= EffectiveMaxAttempts(id)

\* C21 witness: the budget of id-1 is used up and its record is still in the
\* map, at max_attempts, after an event of id-2 has been handled.
C21_Witness ==
    /\ spent["id-1"]
    /\ EffectiveMaxAttempts("id-1") = 2
    /\ "id-1" \in DOMAIN tool_attempts
    /\ tool_attempts["id-1"] = 2
    /\ tool_task["id-1"] = Idle
    /\ ToolCalled
    /\ last.key = "id-2"

HandlerStepped == last.op = "tool" \/ last.op = "model"

\* C22: whatever a handler does (return at once, refuse at the end of the
\* budget or on the predicate's answer, sleep and grant, be cancelled), the
\* event it leaves differs from the event it was called with in the retry
\* flag at most: exception, result or stop_response and tool_use are the
\* same; an event that was refused is left exactly as it arrived.
C22_RetryFlagOnlyChannel ==
    HandlerStepped
    => /\ [last.event EXCEPT !.retry = last.ev.retry] = last.ev
       /\ last.event.retry = last.retry
       /\ (last.stage = "returned" /\ ~last.slept) => last.event = last.ev
       /\ last.stage = "cancelled" => last.event = last.ev

\* C22 witness: a tool handler has slept and granted a retry for an event
\* that carries an exception; the event still carries it.
C22_Witness ==
    /\ last.op = "tool"
    /\ last.slept
    /\ last.stage = "returned"
    /\ ~last.ev.retry
    /\ last.event.retry
    /\ last.event.exception = Exc("TimeoutError", "timed out")
    /\ last.event.result = last.ev.result
    /\ last.event.tool_use = last.ev.tool_use

\* The state __init__ leaves for the given arguments.
FreshlyConstructed(c, attempt, yield, attempts) ==
    /\ c = ConfigOf(args)
    /\ attempt = 0
    /\ yield = NoThrottleEvent
    /\ attempts = EmptyDict

\* C23: a reset at the end of an invocation (no handler suspended) leaves the
\* strategy in the state its constructor leaves for the same arguments, so it
\* answers every later event as a fresh strategy does; within an invocation
\* a handler step removes an identifier's record only on that identifier's
\* handled success, and never lowers a count.
C23_NoLeakAcrossInvocations ==
    [][ /\ (last'.op = "construct" /\ phase' = "ready")
           => FreshlyConstructed(cfg', model_current_attempt',
                                 backwards_compatible_event_to_yield', tool_attempts')
        /\ (last'.op = "reset" /\ NoneSuspended)
           => /\ FreshlyConstructed(cfg', model_current_attempt',
                                    backwards_compatible_event_to_yield', tool_attempts')
              /\ tool_task' = [i \in ToolUseIds |-> Idle]
              /\ model_task' = [t \in ModelTasks |-> Idle]
        /\ (last'.op = "tool" \/ last'.op = "model")
           => \A id \in DOMAIN tool_attempts :
                \/ /\ last'.op = "tool" /\ ~last'.slept /\ last'.key = id
                   /\ CountedSuccess(last'.ev)
                \/ /\ id \in DOMAIN tool_attempts'
                   /\ tool_attempts'[id] >= tool_attempts[id] ]_vars

\* C23 witness: an invocation with a granted model retry and a recorded tool
\* failure has been reset, no handler pending.
C23_Witness ==
    /\ last.op = "reset"
    /\ NoneSuspended
    /\ last.before.attempt = 1
    /\ last.before.yield # NoThrottleEvent
    /\ last.before.ids = {"id-1", "id-2"}
    /\ FreshlyConstructed(cfg, model_current_attempt,
                          backwards_compatible_event_to_yield, tool_attempts)

\* The callback register_hooks is to add for an event class.
HandlerOf(class) ==
    IF class = "AfterModelCallEvent" THEN "_handle_after_model_call"
    ELSE IF class = "AfterToolCallEvent" THEN "_handle_after_tool_call"
    ELSE "_handle_after_invocation"

\* The kind of step a callback takes.
StepOf(callback) ==
    IF callback = "_handle_after_model_call" THEN "model"
    ELSE IF callback = "_handle_after_tool_call" THEN "tool"
    ELSE "reset"

\* C24: once register_hooks has run, the registry holds exactly one callback
\* for each event class, the handler of that class; an event published on
\* the bus runs that one handler, and the step taken is of its kind.
C24_OneHandlerPerEventClass ==
    /\ registry # EmptyRegistry
         => \A class \in EventClasses : registry[class] = <<HandlerOf(class)>>
    /\ (caller.mode = "bus" /\ ~last.slept)
         => /\ caller.callbacks = <<HandlerOf(caller.published)>>
            /\ caller.ran = HandlerOf(caller.published)
            /\ last.op = StepOf(caller.ran)

\* C24 witness: a tool event published on the bus has run the tool handler,
\* which sleeps before a retry.
C24_Witness ==
    /\ caller.mode = "bus"
    /\ caller.published = "AfterToolCallEvent"
    /\ caller.callbacks = <<"_handle_after_tool_call">>
    /\ last.op = "tool"
    /\ last.stage = "suspended"
    /\ model_current_attempt = 1

\* C25: the count recorded for an identifier never exceeds the effective
\* max_attempts of its tool (when that is at least 1); a step raises the
\* count, by one, only for a failure the predicate approves and up to
\* max_attempts; a failure event that arrives when the count is already
\* max_attempts leaves the count as it is.
C25_CountWithinMaxAttempts ==
    phase = "ready" =>
      /\ \A id \in DOMAIN tool_attempts :
           EffectiveMaxAttempts(id) >= 1
           => tool_attempts[id] <= EffectiveMaxAttempts(id)
      /\ (ToolCalled /\ Count(last.key) # last.entry /\ IsToolErrorResult(last.ev))
           => /\ Count(last.key) = last.entry + 1
              /\ ~PredicateRejects(GetToolErrorForPredicate(last.ev))
              /\ EffectiveMaxAttempts(last.key) >= 1
                   => last.entry + 1 <= EffectiveMaxAttempts(last.key)
      /\ ( /\ ToolCalled
           /\ IsToolErrorResult(last.ev)
           /\ EffectiveMaxAttempts(last.key) >= 1
           /\ last.entry = EffectiveMaxAttempts(last.key) )
           => Count(last.key) = last.entry

\* An unclaimed event of a model call that raised a throttling error.
Throttling(ev) ==
    /\ ~ev.retry
    /\ ev.stop_response = "None"
    /\ ev.exception.type = "ModelThrottledException"

C27_FailureClassification ==
    ( /\ phase = "ready"
      /\ ToolCalled
      /\ ~last.ev.retry
      /\ IsToolRetryEnabled(last.ev.tool_use.name) )
    => IF last.ev.exception # NoException \/ last.ev.result.status = "error"
         THEN IF PredicateRejects(GetToolErrorForPredicate(last.ev))
                THEN last.stage = "returned" /\ RecordUntouched
                ELSE LET config == GetToolConfig(last.ev.tool_use.name)
                     IN  /\ Count(last.key) = last.entry + 1
                         /\ last.stage = "suspended"
                              <=> last.entry + 1 < config.max_attempts
                         /\ last.stage = "suspended"
                              => last.delay = Min(config.initial_delay * 2 ^ last.entry,
                                                  config.max_delay)
         ELSE /\ last.stage = "returned"
              /\ last.key \notin DOMAIN tool_attempts

\* C27 witness: an event that carries an exception with a result status
\* "success" has been counted as the second failure of its identifier.
C27_Witness ==
    /\ ToolCalled
    /\ ~last.ev.retry
    /\ last.ev.exception = Exc("ValueError", "transient")
    /\ last.ev.result.status = "success"
    /\ last.entry = 1
    /\ Count(last.key) = 2
    /\ last.stage = "suspended"

GenericMessage == "Tool returned error status"

\* The handler has just called the predicate.
PredicateAsked == ToolCalled /\ last.asked.called

\* The content items that are text items, and those whose text is not empty.
TextItems(content) == {i \in 1..Len(content) : content[i].kind = "text"}

NonEmptyTextItems(content) ==
    {i \in TextItems(content) : content[i].text # ""}

First(S) == CHOOSE i \in S : \A j \in S : i <= j

\* C28 as stated: the predicate is given the event's exception when there is
\* one; otherwise an error with the text of the first content item that has
\* text (read either as: has a text entry, or: has a non-empty text), and
\* with the generic message when no item has text; it is not called for a
\* success event.
C28_ErrorForPredicate ==
    PredicateAsked
    => /\ IsToolErrorResult(last.ev)
       /\ last.ev.exception # NoException => last.asked.error = last.ev.exception
       /\ last.ev.exception = NoException
            => LET content == last.ev.result.content
               IN  \/ /\ TextItems(content) # {}
                      /\ last.asked.error =
                           Exc("RuntimeError", content[First(TextItems(content))].text)
                   \/ /\ NonEmptyTextItems(content) # {}
                      /\ last.asked.error =
                           Exc("RuntimeError", content[First(NonEmptyTextItems(content))].text)
                   \/ /\ TextItems(content) = {} \/ NonEmptyTextItems(content) = {}
                      /\ last.asked.error = Exc("RuntimeError", GenericMessage)

\* C28 amended: the same, the message being the text of the first content
\* item with a text entry when that text is not empty, and the generic
\* message when no item has a text entry or that first text is empty (later
\* items are not looked at).
C28_ErrorForPredicateFirstTextOrGeneric ==
    /\ PredicateAsked
       => /\ IsToolErrorResult(last.ev)
          /\ ~last.ev.retry
          /\ last.ev.exception # NoException => last.asked.error = last.ev.exception
          /\ last.ev.exception = NoException
               => LET content == last.ev.result.content
                      first == IF TextItems(content) = {} THEN ""
                               ELSE content[First(TextItems(content))].text
                  IN  last.asked.error =
                        Exc("RuntimeError", IF first = "" THEN GenericMessage ELSE first)
    /\ (ToolCalled /\ ~IsToolErrorResult(last.ev)) => ~last.asked.called

\* C28 witness: the predicate has been given the generic message for a
\* result whose first text is empty and whose second is not.
C28_Witness ==
    /\ PredicateAsked
    /\ last.ev.exception = NoException
    /\ last.ev.result.content = <<TextItem(""), TextItem("transient")>>
    /\ last.asked.error = Exc("RuntimeError", GenericMessage)
    /\ ~last.retry
    /\ last.stage = "returned"

\* C30: with two after-model-call handlers interleaved on one strategy, the
\* model attempt counter still never exceeds model_max_attempts.
C30_ModelCounterUnderInterleaving ==
    phase = "ready" => model_current_attempt <= cfg.model_max_attempts

\* C29: no handler raises while it processes an event (a task cancelled in
\* its sleep is ended by its canceller, not by an error of the strategy), and
\* the constructor's error is the allow-list/deny-list conflict only.
C29_NoErrorsFromEventProcessing ==
    /\ last.op \in {"model", "tool", "reset"} => last.stage # "raised"
    /\ phase = "error" => BothListsGiven(args)

\* C31: whatever the interleaving of after-tool-call handlers and
\* after-invocation resets, an identifier whose events are all failures is
\* granted retry=true at most max_attempts - 1 times.
C31_BudgetUnderInterleavedReset ==
    phase = "ready" =>
        \A id \in ToolUseIds :
            (caller.all_failures[id] /\ caller.granted[id] > 0) =>
                caller.granted[id] <= GetToolConfig(ToolNameOf(id)).max_attempts - 1

\* C32: the cached throttle notification is non-empty only if the most
\* recently processed after-model-call event was answered with retry=true by
\* this strategy: a handler execution that returns without granting the retry
\* (the attempts exhausted, the event already claimed, a success, another
\* error) leaves the cache empty, and no other step fills it.
C32_FreshThrottleNotification ==
    [][ /\ (last'.op = "model" /\ last'.stage = "returned" /\ ~last'.slept) =>
              backwards_compatible_event_to_yield' = NoThrottleEvent
        /\ (last'.op # "model" /\ backwards_compatible_event_to_yield = NoThrottleEvent) =>
              backwards_compatible_event_to_yield' = NoThrottleEvent ]_vars

\* C33: an after-tool-call handler execution never changes the model attempt
\* counter or the cached throttle notification, an after-model-call handler
\* execution never changes the tool attempt map, and a step that changes both
\* sides is the after-invocation reset.
C33_SubPoliciesIndependent ==
    [][ /\ last'.op = "tool" =>
              UNCHANGED <<model_current_attempt, backwards_compatible_event_to_yield>>
        /\ last'.op = "model" => UNCHANGED tool_attempts
        /\ ( /\ tool_attempts' # tool_attempts
             /\ <<model_current_attempt, backwards_compatible_event_to_yield>>' #
                   <<model_current_attempt, backwards_compatible_event_to_yield>> )
             => last'.op = "reset" ]_vars

\* A model handler has granted a retry while tool attempts are recorded.
C33_Witness ==
    /\ last.op = "model" /\ last.slept /\ last.retry
    /\ tool_attempts # EmptyDict
    /\ model_current_attempt > 0

\* The handler execution that `last` records has set the flag of its event.
GrantedRetry == last.op \in {"tool", "model"} /\ last.event.retry /\ ~last.ev.retry

\* C34: no handler changes an event's retry flag from true to false; a handler
\* sets it to true only for a tool event that is a failure (an exception or an
\* error status) of a retry-enabled tool, or for a model event whose exception
\* is a throttling error; a success event never gets retry=true.
C34_RetryFlagMonotone ==
    /\ (last.op \in {"tool", "model"} /\ last.ev.retry) => last.event.retry
    /\ (GrantedRetry /\ last.op = "tool") =>
          /\ last.ev.exception # NoException \/ last.ev.result.status = "error"
          /\ IsToolRetryEnabled(last.ev.tool_use.name)
    /\ (GrantedRetry /\ last.op = "model") =>
          /\ last.ev.exception.type = "ModelThrottledException"
          /\ last.ev.stop_response = "None"

\* A tool handler has set retry on an event that arrived with retry=false.
C34_Witness == GrantedRetry /\ last.op = "tool" /\ last.slept

\* The handler execution that `last` records is suspended in its sleep only
\* on the path that goes on to grant the retry.
SuspendedOnlyToRetry ==
    last.stage = "suspended" =>
        /\ ~last.ev.retry
        /\ last.op = "tool" =>
              /\ IsToolRetryEnabled(last.ev.tool_use.name)
              /\ last.ev.exception # NoException \/ last.ev.result.status = "error"
              /\ ~PredicateRejects(GetToolErrorForPredicate(last.ev))
              /\ last.entry + 1 < GetToolConfig(last.ev.tool_use.name).max_attempts
        /\ last.op = "model" =>
              /\ last.ev.exception.type = "ModelThrottledException"
              /\ last.ev.stop_response = "None"
              /\ last.entry < cfg.model_max_attempts
        /\ last.op \in {"tool", "model"}

\* C35: a handler execution sleeps at most once (a suspended task only wakes
\* or is cancelled, and is then idle), an uncancelled execution has slept
\* exactly if it has set retry=true, and the executions that leave the flag as
\* it was (already claimed, tool not enabled, success, predicate rejection,
\* budget exhausted, reset) return without suspending.
C35_OneSuspensionPerRetry ==
    /\ [](last.stage = "returned" => (last.slept <=> GrantedRetry))
    /\ []SuspendedOnlyToRetry
    /\ [][ /\ \A id \in ToolUseIds :
                tool_task[id].pc = "sleep" =>
                    tool_task'[id] = tool_task[id] \/ tool_task'[id] = Idle
           /\ \A t \in ModelTasks :
                model_task[t].pc = "sleep" =>
                    model_task'[t] = model_task[t] \/ model_task'[t] = Idle
           /\ (last' # last /\ last'.stage \in {"returned", "cancelled"} /\ last'.slept) =>
                 /\ last'.op = "tool" =>
                       tool_task[last'.key].pc = "sleep" /\ tool_task'[last'.key] = Idle
                 /\ last'.op = "model" =>
                       model_task[last'.key].pc = "sleep" /\ model_task'[last'.key] = Idle
      ]_vars

\* A handler that slept has returned with the retry granted.
C35_Witness == last.stage = "returned" /\ last.slept /\ GrantedRetry /\ last.op = "model"

\* C36: with a caller that re-issues a call exactly when retry=true and fair
\* scheduling, the retry sequence of an always-throttled model call and of an
\* always-failing tool identifier ends: a handler execution for it eventually
\* returns with retry=false.
C36_RetryLoopsTerminate ==
    /\ (caller.stage = "model" /\ caller.throttles = Always) ~>
          (last.op = "model" /\ last.stage = "returned" /\ ~last.event.retry)
    /\ \A id \in ToolUseIds :
          (caller.stage = "tools" /\ caller.fails[id] = Always /\ caller.state[id] # "done") ~>
              (last.op = "tool" /\ last.key = id /\ last.stage = "returned"
                 /\ ~last.event.retry)

\* An always-failing identifier has been retried and then refused.
C36_Witness ==
    \E id \in ToolUseIds :
        /\ caller.stage = "tools" /\ caller.fails[id] = Always
        /\ caller.sleeps[id] > 0
        /\ last.op = "tool" /\ last.key = id /\ last.stage = "returned"
        /\ ~last.event.retry

\* C37: a strategy constructed with tool_max_attempts > 0 and an empty
\* allow-list (tool_enabled_tools = []) never sets retry=true for any tool.
C37_EmptyAllowList ==
    ( /\ phase = "ready"
      /\ args.tool_max_attempts > 0
      /\ args.tool_enabled_tools.given
      /\ args.tool_enabled_tools.names = {} )
    => ~(GrantedRetry /\ last.op = "tool")

====
